---- MODULE Spec2Model ----
(***************************************************************************)
(* Model of snapshot_role_bot.py: the /snapshot slash command (the         *)
(* delivery pipeline of `snapshot`), the channel resolver, the locale      *)
(* resolver `pick_lang` and the translation helper `t`.                    *)
(*                                                                         *)
(* Python strings are modelled as tuples of one-token strings, so that     *)
(* lower(), strip(), startswith(), int() and str.format_map() are computed *)
(* rather than assumed.  Python's None is the model value None.            *)
(***************************************************************************)
EXTENDS Integers, Sequences, FiniteSets, TLC

VARIABLES
    FORCED_LANG,             \* line 34
    DEFAULT_CHANNEL_ID_ENV,  \* line 33
    BOT_TZ,                  \* line 36
    TZ_VALID,                \* lines 42 / 45
    CONFIG_TZ,               \* lines 41 / 44
    _LANG_CACHE,             \* line 58, filled by load_lang() at line 135
    picked,                  \* last call of pick_lang: its arguments and result
    translated,              \* last call of t: its arguments and result
    invocations,             \* number of command invocations received so far
    pc,                      \* position of the running invocation in snapshot()
    interaction,             \* the discord.Interaction of the running invocation
    lang,                    \* local `lang` of snapshot()
    response_done,           \* interaction.response.is_done()
    log,                     \* every message the invocation asked the transport to send
    target_channel,          \* local `target_channel` of snapshot()
    member_cache,            \* what ensure_full_member_cache did to the guild cache
    members,                 \* local `members` (list(role.members))
    file,                    \* local `file` (the discord.File holding the CSV)
    perms,                   \* local `perms` (target_channel.permissions_for(guild.me))
    send_result,             \* how target_channel.send ended
    outcome,                 \* the terminal branch the invocation took
    raisedAt                 \* the statement an escaping exception came from

vars == << FORCED_LANG, DEFAULT_CHANNEL_ID_ENV, BOT_TZ, TZ_VALID, CONFIG_TZ,
           _LANG_CACHE, picked, translated, invocations, pc, interaction, lang,
           response_done, log, target_channel, member_cache, members, file, perms,
           send_result, outcome, raisedAt >>

configVars == << FORCED_LANG, DEFAULT_CHANNEL_ID_ENV, BOT_TZ, TZ_VALID, CONFIG_TZ, _LANG_CACHE >>

callVars == << picked, translated >>

runVars == << invocations, pc, interaction, lang, response_done, log, target_channel,
              member_cache, members, file, perms, send_result, outcome, raisedAt >>

\* Python's None, comparable with every modelled string
None == << "None" >>

\* number of command invocations a run of the model handles
MaxInvocations == 2

\* ------------------------------------------------------------------ strings

De == << "d", "e" >>

En == << "e", "n" >>

Fr == << "f", "r" >>

Es == << "e", "s" >>

LowerChar(c) ==
    CASE c = "D" -> "d"
      [] c = "E" -> "e"
      [] c = "N" -> "n"
      [] c = "F" -> "f"
      [] c = "R" -> "r"
      [] c = "U" -> "u"
      [] c = "S" -> "s"
      [] OTHER -> c

\* str.lower()
Lower(s) == [i \in 1..Len(s) |-> LowerChar(s[i])]

RECURSIVE LStrip(_)
LStrip(s) == IF s # << >> /\ Head(s) = " " THEN LStrip(Tail(s)) ELSE s

RECURSIVE RStrip(_)
RStrip(s) == IF s # << >> /\ s[Len(s)] = " " THEN RStrip(SubSeq(s, 1, Len(s) - 1)) ELSE s

\* str.strip()
Strip(s) == RStrip(LStrip(s))

\* str.startswith(p)
StartsWith(s, p) == Len(s) >= Len(p) /\ SubSeq(s, 1, Len(p)) = p

\* ------------------------------------------------------------ startup config

\* line 34: FORCED_LANG = (os.getenv("BOT_LANG") or "").strip().lower()
ForcedLangOf(env) == Lower(Strip(IF env = None THEN << >> ELSE env))

\* values of the BOT_LANG environment variable
BotLangEnvs == { None, << >>, De, << "E", "N" >>, << " ", "f", "r", " " >>, Es }

\* zone names ZoneInfo() accepts (lines 40-45); anything else raises
KnownZones == { "UTC", "Europe/Berlin" }

BotTzEnvs == { "UTC", "Europe/Berlin", "Mars/Olympus" }

\* lines 40-45: CONFIG_TZ, TZ_VALID
TzValidOf(tz) == tz \in KnownZones

ConfigTzOf(tz) == IF tz \in KnownZones THEN tz ELSE "UTC"

\* ------------------------------------------------------------- localization

\* message keys of the built-in catalog (lines 67-106), one token each
FallbackKeys ==
    { << "cmd.description" >>, << "arg.role" >>, << "arg.channel" >>,
      << "err.need_manage_guild" >>, << "err.guild_only" >>, << "err.no_target_channel" >>,
      << "err.missing_perms" >>, << "err.send_forbidden" >>, << "err.unexpected_send" >>,
      << "warn.invalid_tz" >>, << "ok.posted" >>, << "post.header" >>, << "post.timestamp" >>,
      << "csv.header.timestamp" >>, << "csv.header.username" >>, << "csv.header.discord_id" >> }

\* A template of the built-in catalog: each run of literal text is one token
\* ("txt:" and the language), each placeholder is kept as "{", name, "}".
FallbackTemplate(l, k) ==
    LET txt == IF l = De THEN "txt:de" ELSE "txt:en" IN
    CASE k \in { << "err.missing_perms" >>, << "err.send_forbidden" >>, << "ok.posted" >> }
           -> << txt, "{", "channel", "}", txt >>
      [] k = << "err.unexpected_send" >> -> << txt, "{", "error", "}", txt >>
      [] k = << "warn.invalid_tz" >> -> << txt, "{", "tz", "}", txt >>
      [] k = << "post.header" >> -> << txt, "{", "role_id", "}", txt, "{", "count", "}", txt >>
      [] k = << "post.timestamp" >> -> << txt, "{", "timestamp", "}" >>
      [] OTHER -> << txt >>

\* lines 66-106: the catalog load_lang() builds when LANG_FILE is missing
FallbackCatalog == [l \in { De, En } |-> [k \in FallbackKeys |-> FallbackTemplate(l, k)]]

\* a discord.Locale member whose .value is the string v
Locale(v) == << "Locale", v >>

\* lines 113-117: _to_locale_code(x); a discord.Locale carries its code in .value
to_locale_code(x) == IF x = None THEN << >> ELSE x[2]

\* lines 108-125: pick_lang(interaction), on interaction.locale and interaction.guild_locale
pick_lang(locale, guild_locale) ==
    IF FORCED_LANG # << >> /\ FORCED_LANG \in DOMAIN _LANG_CACHE
    THEN FORCED_LANG
    ELSE LET a    == to_locale_code(locale)
             raw  == IF a # << >> THEN a ELSE to_locale_code(guild_locale)
             cand == Lower(raw)
         IN  IF StartsWith(cand, De) /\ De \in DOMAIN _LANG_CACHE THEN De
             ELSE IF StartsWith(cand, En) /\ En \in DOMAIN _LANG_CACHE THEN En
             ELSE IF De \in DOMAIN _LANG_CACHE THEN De ELSE En

\* dict.get(lang, {}).get(key): None when the language or the key is missing
CatalogGet(l, key) ==
    IF l \in DOMAIN _LANG_CACHE /\ key \in DOMAIN _LANG_CACHE[l]
    THEN _LANG_CACHE[l][key]
    ELSE None

\* Python truthiness of a lookup result: None and "" are falsy
Truthy(v) == v # None /\ v # << >>

\* t_lookup without its last catalog operand: the German entry is never consulted
t_lookup_without_de(l, key) ==
    IF Truthy(CatalogGet(l, key)) THEN [tier |-> "lang", text |-> CatalogGet(l, key)]
    ELSE IF Truthy(CatalogGet(En, key)) THEN [tier |-> "en", text |-> CatalogGet(En, key)]
    ELSE [tier |-> "key", text |-> key]

\* line 129: the `or` chain; tier names the operand the text came from
t_lookup(l, key) ==
    IF Truthy(CatalogGet(l, key)) THEN [tier |-> "lang", text |-> CatalogGet(l, key)]
    ELSE IF Truthy(CatalogGet(En, key)) THEN [tier |-> "en", text |-> CatalogGet(En, key)]
    ELSE IF Truthy(CatalogGet(De, key)) THEN [tier |-> "de", text |-> CatalogGet(De, key)]
    ELSE [tier |-> "key", text |-> key]

\* the result of a str.format_map call that raised
Raised == << "Raised" >>

Join(a, b) == IF b = Raised THEN Raised ELSE a \o b

\* index of the first "}" of s at or after i, 0 when there is none
RECURSIVE CloseAt(_, _)
CloseAt(s, i) ==
    IF i > Len(s) THEN 0 ELSE IF s[i] = "}" THEN i ELSE CloseAt(s, i + 1)

\* str.format_map(kwargs) on s[i..]: "{{" and "}}" are literal braces, "{name}" is
\* kwargs[name] (KeyError when missing), a lone brace is a ValueError, and so is
\* "{}" under format_map, which has no positional arguments
RECURSIVE FormatFrom(_, _, _)
FormatFrom(s, i, kwargs) ==
    IF i > Len(s) THEN << >>
    ELSE IF s[i] = "{" THEN
        IF i < Len(s) /\ s[i + 1] = "{"
        THEN Join(<< "{" >>, FormatFrom(s, i + 2, kwargs))
        ELSE LET j    == CloseAt(s, i + 1)
                 name == SubSeq(s, i + 1, j - 1)
             IN  IF j = 0 \/ name = << >> \/ (\E n \in 1..Len(name) : name[n] = "{")
                    \/ name \notin DOMAIN kwargs
                 THEN Raised
                 ELSE Join(kwargs[name], FormatFrom(s, j + 1, kwargs))
    ELSE IF s[i] = "}" THEN
        IF i < Len(s) /\ s[i + 1] = "}"
        THEN Join(<< "}" >>, FormatFrom(s, i + 2, kwargs))
        ELSE Raised
    ELSE Join(<< s[i] >>, FormatFrom(s, i + 1, kwargs))

format_map(text, kwargs) == FormatFrom(text, 1, kwargs)

\* lines 127-133: t(lang, key, **kwargs)
t(l, key, kwargs) ==
    LET text == t_lookup(l, key).text
        out  == format_map(text, kwargs)
    IN  IF out = Raised THEN text ELSE out

\* ------------------------------------------- the localization helpers alone

NotCalled == [called |-> FALSE]

\* the run state while no invocation is being handled
NoInteraction == [in_guild |-> FALSE]

IdleRun ==
    /\ pc = "idle"
    /\ interaction = NoInteraction
    /\ lang = None
    /\ response_done = FALSE
    /\ log = << >>
    /\ target_channel = None
    /\ member_cache = "untouched"
    /\ members = None
    /\ file = None
    /\ perms = [known |-> FALSE]
    /\ send_result = "none"
    /\ outcome = "none"
    /\ raisedAt = "none"

\* locale hints an interaction can carry
LocaleHints ==
    { None, Locale(De), Locale(<< "d", "e", "-", "A", "T" >>), Locale(<< "e", "n", "-", "U", "S" >>),
      Locale(<< "E", "N" >>), Locale(Fr), Locale(<< >>) }

\* the language sets of the catalogs a lang.json can hold
LanguageSets == SUBSET { De, En, Fr }

\* templates a lang.json can hold for one key
Templates ==
    { << >>, << "a" >>, << "b" >>, << "{", "{" >>, << "{", "a", "}" >>, << "}" >>,
      << "x", "{", "a", "}", "}", "}" >> }

TestKeys == { << "a" >>, << "{" >> }

\* one language's dict over the single key k: without the key, or with a template
EntriesOver(k) == { << >> } \cup { (k :> v) : v \in Templates }

\* catalogs json.load can return for lang.json (line 65), restricted to one key
CatalogsOver(k) ==
    UNION { [ls -> EntriesOver(k)] : ls \in LanguageSets }

KwargsSets == { << >>, (<< "a" >> :> << "b" >>) }

InitPick ==
    /\ \E env \in BotLangEnvs : FORCED_LANG = ForcedLangOf(env)
    /\ DEFAULT_CHANNEL_ID_ENV = None
    /\ BOT_TZ = "UTC" /\ TZ_VALID = TzValidOf("UTC") /\ CONFIG_TZ = ConfigTzOf("UTC")
    /\ _LANG_CACHE \in { FallbackCatalog } \cup { [l \in ls |-> << >>] : ls \in LanguageSets }
    /\ picked = NotCalled /\ translated = NotCalled
    /\ invocations = 0 /\ IdleRun

\* a call of pick_lang on an interaction carrying the two hints
PickLang ==
    \E locale \in LocaleHints, guild_locale \in LocaleHints :
        /\ picked' = [called |-> TRUE, locale |-> locale, guild_locale |-> guild_locale,
                      result |-> pick_lang(locale, guild_locale)]
        /\ UNCHANGED << configVars, translated, runVars >>

SpecPick == InitPick /\ [][PickLang]_vars

InitT ==
    /\ FORCED_LANG = << >>
    /\ DEFAULT_CHANNEL_ID_ENV = None
    /\ BOT_TZ = "UTC" /\ TZ_VALID = TzValidOf("UTC") /\ CONFIG_TZ = ConfigTzOf("UTC")
    /\ _LANG_CACHE \in { FallbackCatalog } \cup UNION { CatalogsOver(k) : k \in TestKeys }
    /\ picked = NotCalled /\ translated = NotCalled
    /\ invocations = 0 /\ IdleRun

\* a call of t
Translate ==
    \E l \in { De, En, Fr, Es }, key \in TestKeys \cup { << "ok.posted" >> }, kwargs \in KwargsSets :
        /\ translated' = [called |-> TRUE, lang |-> l, key |-> key, kwargs |-> kwargs,
                          tier |-> t_lookup(l, key).tier, result |-> t(l, key, kwargs)]
        /\ UNCHANGED << configVars, picked, runVars >>

SpecT == InitT /\ [][Translate]_vars

\* -------------------------------------------------------- channel resolver

DigitVal(c) ==
    CASE c = "0" -> 0 [] c = "1" -> 1 [] c = "2" -> 2 [] c = "3" -> 3 [] c = "4" -> 4
      [] c = "5" -> 5 [] c = "6" -> 6 [] c = "7" -> 7 [] c = "8" -> 8 [] c = "9" -> 9

Digits == { "0", "1", "2", "3", "4", "5", "6", "7", "8", "9" }

RECURSIVE DigitsValue(_)
DigitsValue(s) ==
    IF s = << >> THEN 0
    ELSE 10 * DigitsValue(SubSeq(s, 1, Len(s) - 1)) + DigitVal(s[Len(s)])

\* Python int(str): surrounding whitespace is dropped, one sign is allowed, then
\* one or more decimal digits; anything else raises ValueError (ok = FALSE)
int(s) ==
    LET body   == Strip(s)
        signed == body # << >> /\ Head(body) \in { "-", "+" }
        digs   == IF signed THEN Tail(body) ELSE body
    IN  IF digs = << >> \/ (\E i \in 1..Len(digs) : digs[i] \notin Digits)
        THEN [ok |-> FALSE]
        ELSE [ok |-> TRUE,
              value |-> IF signed /\ Head(body) = "-" THEN 0 - DigitsValue(digs) ELSE DigitsValue(digs)]

\* a channel object, known by its id
Channel(id) == << "channel", ToString(id) >>

\* ids of the channels of the guild the command is used in
GuildChannelIds == { 1, 2 }

\* guild.get_channel(cid): the channel, or None when the guild has none with that id
get_channel(cid) == IF cid \in GuildChannelIds THEN Channel(cid) ELSE None

\* values of the DEFAULT_CHANNEL_ID environment variable (line 33)
DefaultChannelEnvs ==
    { None, << >>, << "1" >>, << "0", "2" >>, << " ", "2" >>, << "9" >>, << "x" >>, << "-", "1" >> }

\* lines 177-185: resolve_default_channel(guild)
resolve_default_channel ==
    IF DEFAULT_CHANNEL_ID_ENV = None \/ DEFAULT_CHANNEL_ID_ENV = << >>
    THEN None
    ELSE LET cid == int(DEFAULT_CHANNEL_ID_ENV)
         IN  IF cid.ok THEN get_channel(cid.value) ELSE None

\* resolve_target with the first two operands of the `or` chain swapped
resolve_target_default_first(channel, invoked_from) ==
    IF resolve_default_channel # None THEN resolve_default_channel
    ELSE IF channel # None THEN channel
    ELSE invoked_from

\* line 226: channel or resolve_default_channel(guild) or interaction.channel
resolve_target(channel, invoked_from) ==
    IF channel # None THEN channel
    ELSE IF resolve_default_channel # None THEN resolve_default_channel
    ELSE invoked_from

\* getattr(target_channel, "mention", "#channel")
Mention(ch) == << "<#", ch[2], ">" >>

\* ------------------------------------------------------- delivery pipeline

\* the invoking user as the addressee of a message
Invoker == << "invoker" >>

\* Reply with the ephemeral flag left out of a followup.send
Reply_public_followup(via, key, kwargs, delivered) ==
    [to |-> Invoker, via |-> via, key |-> key, text |-> t(lang, key, kwargs),
     ephemeral |-> (via # "followup.send"), has_file |-> FALSE, delivered |-> delivered]

\* A private message to the invoker: interaction.response.send_message or
\* interaction.followup.send, every one of them called with ephemeral=True
\* (lines 207-210, 215, 217, 224, 228, 266-269, 284-287, 289-292, 294-297).
\* delivered is FALSE when the call raised.
Reply(via, key, kwargs, delivered) ==
    [to |-> Invoker, via |-> via, key |-> key, text |-> t(lang, key, kwargs),
     ephemeral |-> TRUE, has_file |-> FALSE, delivered |-> delivered]

\* lines 219-220: interaction.response.defer(thinking=True, ephemeral=True)
DeferAck(delivered) ==
    [to |-> Invoker, via |-> "response.defer", key |-> None, text |-> << >>,
     ephemeral |-> TRUE, has_file |-> FALSE, delivered |-> delivered]

\* lines 275-282: target_channel.send(content=..., file=file, allowed_mentions=none),
\* one call carrying the text and the attachment
Post(delivered) ==
    [to |-> target_channel, via |-> "channel.send", key |-> << "post.header" >>,
     text |-> t(lang, << "post.header" >>,
                (<< "role_id" >> :> << "role" >>) @@ (<< "count" >> :> << members[2] >>))
              \o << "\n" >>
              \o t(lang, << "post.timestamp" >>, (<< "timestamp" >> :> << "now@", CONFIG_TZ >>)),
     ephemeral |-> FALSE, has_file |-> (file # None), delivered |-> delivered]

\* the invoking user: a discord.Member inside a guild (with guild_permissions),
\* a discord.User, which has no guild_permissions attribute, outside one
Interactions ==
    [in_guild : { TRUE }, manage_guild : BOOLEAN,
     locale : { Locale(De), Locale(<< "e", "n", "-", "U", "S" >>) }, guild_locale : { None },
     channel_arg : { None, Channel(1), Channel(2) }, channel : { None, Channel(1), Channel(3) }]
    \cup
    [in_guild : { FALSE },
     locale : { Locale(De), Locale(<< "e", "n", "-", "U", "S" >>) }, guild_locale : { None },
     channel_arg : { None, Channel(1), Channel(2) }, channel : { None, Channel(1), Channel(3) }]

\* user_has_manage_guild reading a flag every member has
user_has_manage_guild_any_member ==
    IF interaction.in_guild
    THEN [raised |-> FALSE, value |-> TRUE]
    ELSE [raised |-> TRUE]

\* line 175: interaction.user.guild_permissions.manage_guild
user_has_manage_guild ==
    IF interaction.in_guild
    THEN [raised |-> FALSE, value |-> interaction.manage_guild]
    ELSE [raised |-> TRUE]

Init ==
    /\ \E env \in { None, << "E", "N" >> } : FORCED_LANG = ForcedLangOf(env)
    /\ DEFAULT_CHANNEL_ID_ENV \in DefaultChannelEnvs
    /\ BOT_TZ \in BotTzEnvs
    /\ TZ_VALID = TzValidOf(BOT_TZ)
    /\ CONFIG_TZ = ConfigTzOf(BOT_TZ)
    /\ _LANG_CACHE = FallbackCatalog
    /\ picked = NotCalled /\ translated = NotCalled
    /\ invocations = 0 /\ IdleRun

\* an exception leaves snapshot(): nothing after the raising statement runs
Escapes(at) ==
    /\ pc' = "raised"
    /\ outcome' = "exception"
    /\ raisedAt' = at

\* snapshot() returns
Returns(how) ==
    /\ pc' = "done"
    /\ outcome' = how
    /\ raisedAt' = raisedAt

\* lines 198-203: the command arrives; lang = pick_lang(interaction)
Receive ==
    /\ pc = "idle"
    /\ invocations < MaxInvocations
    /\ invocations' = invocations + 1
    /\ \E i \in Interactions :
        /\ interaction' = i
        /\ lang' = pick_lang(i.locale, i.guild_locale)
    /\ pc' = "warn"
    /\ UNCHANGED << configVars, callVars, response_done, log, target_channel, member_cache,
                    members, file, perms, send_result, outcome, raisedAt >>

\* WarnInvalidTz returning after the warning (`return await ...send_message`)
WarnInvalidTz_returns ==
    /\ pc = "warn"
    /\ IF ~TZ_VALID /\ ~response_done
       THEN \E ok \in BOOLEAN :
              /\ log' = Append(log, Reply("response.send_message", << "warn.invalid_tz" >>,
                                            (<< "tz" >> :> << BOT_TZ >>), ok))
              /\ response_done' = ok
              /\ IF ok THEN Returns("warned") ELSE Escapes("warn")
       ELSE /\ pc' = "check"
            /\ UNCHANGED << log, response_done, outcome, raisedAt >>
    /\ UNCHANGED << configVars, callVars, invocations, interaction, lang, target_channel,
                    member_cache, members, file, perms, send_result >>

\* lines 205-210: the invalid-timezone warning
WarnInvalidTz ==
    /\ pc = "warn"
    /\ IF ~TZ_VALID /\ ~response_done
       THEN \E ok \in BOOLEAN :
              /\ log' = Append(log, Reply("response.send_message", << "warn.invalid_tz" >>,
                                            (<< "tz" >> :> << BOT_TZ >>), ok))
              /\ IF ok
                 THEN /\ response_done' = TRUE
                      /\ pc' = "check"
                      /\ UNCHANGED << outcome, raisedAt >>
                 ELSE /\ Escapes("warn")
                      /\ UNCHANGED response_done
       ELSE /\ pc' = "check"
            /\ UNCHANGED << log, response_done, outcome, raisedAt >>
    /\ UNCHANGED << configVars, callVars, invocations, interaction, lang, target_channel,
                    member_cache, members, file, perms, send_result >>

\* lines 212-217: the permission check
PermissionCheck ==
    /\ pc = "check"
    /\ IF user_has_manage_guild.raised
       THEN Escapes("check") /\ UNCHANGED log
       ELSE IF ~user_has_manage_guild.value
       THEN \E ok \in BOOLEAN :
              /\ log' = Append(log, Reply(IF response_done THEN "followup.send"
                                                            ELSE "response.send_message",
                                            << "err.need_manage_guild" >>, << >>, ok))
              /\ IF ok THEN Returns("denied") ELSE Escapes("deny")
       ELSE /\ pc' = "defer"
            /\ UNCHANGED << log, outcome, raisedAt >>
    /\ UNCHANGED << configVars, callVars, invocations, interaction, lang, response_done,
                    target_channel, member_cache, members, file, perms, send_result >>

\* lines 219-220: acknowledge the request
Defer ==
    /\ pc = "defer"
    /\ IF ~response_done
       THEN \E ok \in BOOLEAN :
              /\ log' = Append(log, DeferAck(ok))
              /\ IF ok
                 THEN /\ response_done' = TRUE
                      /\ pc' = "guild"
                      /\ UNCHANGED << outcome, raisedAt >>
                 ELSE /\ Escapes("defer")
                      /\ UNCHANGED response_done
       ELSE /\ pc' = "guild"
            /\ UNCHANGED << log, response_done, outcome, raisedAt >>
    /\ UNCHANGED << configVars, callVars, invocations, interaction, lang, target_channel,
                    member_cache, members, file, perms, send_result >>

\* lines 222-224: the server-context check
GuildCheck ==
    /\ pc = "guild"
    /\ IF ~interaction.in_guild
       THEN \E ok \in BOOLEAN :
              /\ log' = Append(log, Reply("followup.send", << "err.guild_only" >>, << >>, ok))
              /\ IF ok THEN Returns("guild_only") ELSE Escapes("guild")
       ELSE /\ pc' = "resolve"
            /\ UNCHANGED << log, outcome, raisedAt >>
    /\ UNCHANGED << configVars, callVars, invocations, interaction, lang, response_done,
                    target_channel, member_cache, members, file, perms, send_result >>

\* lines 226-228: resolve the target channel
ResolveTarget ==
    /\ pc = "resolve"
    /\ target_channel' = resolve_target(interaction.channel_arg, interaction.channel)
    /\ IF target_channel' = None
       THEN \E ok \in BOOLEAN :
              /\ log' = Append(log, Reply("followup.send", << "err.no_target_channel" >>, << >>, ok))
              /\ IF ok THEN Returns("no_target") ELSE Escapes("resolve")
       ELSE /\ pc' = "cache"
            /\ UNCHANGED << log, outcome, raisedAt >>
    /\ UNCHANGED << configVars, callVars, invocations, interaction, lang, response_done,
                    member_cache, members, file, perms, send_result >>

\* line 230 and lines 161-171: ensure_full_member_cache; guild.chunk() fills the
\* cache or raises, the members guild.fetch_members yields are dropped, and both
\* exceptions are swallowed
EnsureFullMemberCache ==
    /\ pc = "cache"
    /\ \E chunked \in BOOLEAN, fetched \in BOOLEAN :
        member_cache' = IF chunked THEN "chunked" ELSE "partial"
    /\ pc' = "build"
    /\ UNCHANGED << configVars, callVars, invocations, interaction, lang, response_done, log,
                    target_channel, members, file, perms, send_result, outcome, raisedAt >>

\* lines 232-260: timestamp, members of the role, CSV, filename, discord.File.
\* None of it is inside a try: an exception of these statements (ZoneInfo("Europe/Berlin")
\* at line 157 raises where the IANA database is missing, as lines 40-45 expect of
\* ZoneInfo) leaves the handler.
BuildArtifact ==
    /\ pc = "build"
    /\ \E count \in { "0", "2" } : members' = << "members", count >>
    /\ \E raises \in BOOLEAN :
        IF raises
        THEN Escapes("build") /\ UNCHANGED file
        ELSE /\ file' = << "csv", (members')[2], CONFIG_TZ >>
             /\ pc' = "perms"
             /\ UNCHANGED << outcome, raisedAt >>
    /\ UNCHANGED << configVars, callVars, invocations, interaction, lang, response_done, log,
                    target_channel, member_cache, perms, send_result >>

\* what permissions_for(guild.me) can answer
PermissionSets ==
    [known : { TRUE }, send_messages : BOOLEAN, attach_files : BOOLEAN, view_channel : BOOLEAN]

\* lines 262-271: the capability check; `except Exception: pass` covers the
\* permissions lookup and the followup.send of the error alike
CheckChannelPerms ==
    /\ pc = "perms"
    /\ \E p \in PermissionSets \cup { [known |-> FALSE] } :
        /\ perms' = p
        /\ IF p.known /\ ~(p.send_messages /\ p.attach_files /\ p.view_channel)
           THEN \E ok \in BOOLEAN :
                  /\ log' = Append(log, Reply("followup.send", << "err.missing_perms" >>,
                                                (<< "channel" >> :> Mention(target_channel)), ok))
                  /\ IF ok
                     THEN Returns("missing_perms")
                     ELSE /\ pc' = "send"
                          /\ UNCHANGED << outcome, raisedAt >>
           ELSE /\ pc' = "send"
                /\ UNCHANGED << log, outcome, raisedAt >>
    /\ UNCHANGED << configVars, callVars, invocations, interaction, lang, response_done,
                    target_channel, member_cache, members, file, send_result >>

\* lines 273-282: the one send to the target channel
SendFile ==
    /\ pc = "send"
    /\ \E r \in { "ok", "Forbidden", "HTTPException" } :
        /\ send_result' = r
        /\ log' = Append(log, Post(r = "ok"))
    /\ pc' = "report"
    /\ UNCHANGED << configVars, callVars, invocations, interaction, lang, response_done,
                    target_channel, member_cache, members, file, perms, outcome, raisedAt >>

\* lines 283-297: report how the send ended
Report ==
    /\ pc = "report"
    /\ \E ok \in BOOLEAN :
        /\ log' = Append(log,
             CASE send_result = "Forbidden" ->
                    Reply("followup.send", << "err.send_forbidden" >>,
                          (<< "channel" >> :> Mention(target_channel)), ok)
               [] send_result = "HTTPException" ->
                    Reply("followup.send", << "err.unexpected_send" >>,
                          (<< "error" >> :> << "HTTPException" >>), ok)
               [] OTHER ->
                    Reply("followup.send", << "ok.posted" >>,
                          (<< "channel" >> :> Mention(target_channel)), ok))
        /\ IF ok
           THEN Returns(CASE send_result = "Forbidden" -> "send_forbidden"
                          [] send_result = "HTTPException" -> "unexpected_send"
                          [] OTHER -> "posted")
           ELSE Escapes("report")
    /\ UNCHANGED << configVars, callVars, invocations, interaction, lang, response_done,
                    target_channel, member_cache, members, file, perms, send_result >>

\* the invocation is over; the client library hands the next command to a new call
NextInvocation ==
    /\ pc \in { "done", "raised" }
    /\ invocations < MaxInvocations
    /\ pc' = "idle"
    /\ interaction' = NoInteraction
    /\ lang' = None
    /\ response_done' = FALSE
    /\ log' = << >>
    /\ target_channel' = None
    /\ member_cache' = "untouched"
    /\ members' = None
    /\ file' = None
    /\ perms' = [known |-> FALSE]
    /\ send_result' = "none"
    /\ outcome' = "none"
    /\ raisedAt' = "none"
    /\ UNCHANGED << configVars, callVars, invocations >>

Next ==
    \/ Receive
    \/ WarnInvalidTz
    \/ PermissionCheck
    \/ Defer
    \/ GuildCheck
    \/ ResolveTarget
    \/ EnsureFullMemberCache
    \/ BuildArtifact
    \/ CheckChannelPerms
    \/ SendFile
    \/ Report
    \/ NextInvocation

Spec == Init /\ [][Next]_vars

\* =================================================================== claims

Ended == pc \in { "done", "raised" }

ErrorKeys ==
    { << "err.need_manage_guild" >>, << "err.guild_only" >>, << "err.no_target_channel" >>,
      << "err.missing_perms" >>, << "err.send_forbidden" >>, << "err.unexpected_send" >> }

\* positions in log of the private error replies the invocation asked for
PrivateErrors == { i \in DOMAIN log : log[i].to = Invoker /\ log[i].key \in ErrorKeys }

Denials == { i \in DOMAIN log : log[i].key = << "err.need_manage_guild" >> }

Warnings == { i \in DOMAIN log : log[i].key = << "warn.invalid_tz" >> }

\* positions in log of the sends to the target channel
Posts == { i \in DOMAIN log : log[i].via = "channel.send" }

MissingCapability ==
    perms.known /\ ~(perms.send_messages /\ perms.attach_files /\ perms.view_channel)

ErrorAfterAck ==
    /\ interaction.in_guild /\ interaction.manage_guild
    /\ response_done
    /\ raisedAt \notin { "warn", "defer" }
    /\ \/ pc \notin { "warn", "check", "defer", "guild", "resolve" } /\ target_channel = None
       \/ MissingCapability
       \/ send_result \in { "Forbidden", "HTTPException" }
       \/ raisedAt = "build"

\* C2: an invocation in which an error occurred after the acknowledgment step ends
\* with exactly one private error reply to the invoker, never with none and never
\* with more than one.
C2_EveryLateErrorRepliedOnce ==
    (Ended /\ ErrorAfterAck) => Cardinality(PrivateErrors) = 1

\* C3: when the bot lacks send-messages, attach-files or view-channel on the
\* resolved target channel, the send to the target channel is never attempted, also
\* when the private missing-permissions reply itself fails, and the invocation ends
\* with the missing-permissions error.
C3_NoSendWithoutCapability ==
    MissingCapability =>
        /\ Posts = { }
        /\ pc = "done" => outcome = "missing_perms"

\* C4: every message addressed to the invoker (warning, denial, context error,
\* capability error, transport error, confirmation, acknowledgment) is ephemeral;
\* the only other message is at most one send to the target channel, a single call
\* carrying text and file together; and an invocation that ended in an error branch
\* left nothing delivered in the channel.
C4_OnlyTheOnePostIsPublic ==
    /\ \A i \in DOMAIN log : log[i].to = Invoker => log[i].ephemeral /\ ~log[i].has_file
    /\ \A i \in DOMAIN log : log[i].to # Invoker => i \in Posts
    /\ Cardinality(Posts) <= 1
    /\ \A i \in Posts :
          /\ log[i].to = target_channel /\ target_channel # None
          /\ log[i].has_file /\ log[i].text # << >>
    /\ outcome \in { "denied", "guild_only", "no_target", "missing_perms", "send_forbidden",
                     "unexpected_send" }
          => \A i \in Posts : ~log[i].delivered

\* C4 witness: a successful delivery: acknowledgment, the post, the confirmation
C4_Witness ==
    /\ pc = "done" /\ outcome = "posted"
    /\ Len(log) = 3
    /\ Posts = { 2 } /\ log[2].delivered /\ log[2].has_file
    /\ log[3].key = << "ok.posted" >> /\ log[3].ephemeral

\* the invocation has run line 226
Resolved ==
    \/ pc \in { "cache", "build", "perms", "send", "report" }
    \/ Ended /\ interaction.in_guild /\ interaction.manage_guild
             /\ raisedAt \notin { "warn", "defer" }

\* the configured default id is set, parses as a number and names a channel of the guild
DefaultFound ==
    /\ DEFAULT_CHANNEL_ID_ENV \notin { None, << >> }
    /\ int(DEFAULT_CHANNEL_ID_ENV).ok
    /\ int(DEFAULT_CHANNEL_ID_ENV).value \in GuildChannelIds

\* C5: the target channel is the explicit argument when one is given, whatever the
\* default; else the channel the configured default id names, when that id is set,
\* parses and is a channel of the guild; else the channel the command was invoked
\* from.  A default that is absent or does not resolve raises nothing, and the
\* no-target error is the outcome exactly when all three are absent or unresolvable.
C5_TargetByStrictPriority ==
    Resolved =>
        /\ interaction.channel_arg # None => target_channel = interaction.channel_arg
        /\ (interaction.channel_arg = None /\ DefaultFound)
              => target_channel = Channel(int(DEFAULT_CHANNEL_ID_ENV).value)
        /\ (interaction.channel_arg = None /\ ~DefaultFound)
              => target_channel = interaction.channel
        /\ (outcome = "no_target" \/ raisedAt = "resolve")
              <=> (interaction.channel_arg = None /\ ~DefaultFound /\ interaction.channel = None)

\* C5 witness: an explicit argument that differs from a resolvable default
C5_Witness ==
    /\ pc = "cache"
    /\ DefaultFound /\ resolve_default_channel = Channel(2)
    /\ interaction.channel_arg = Channel(1)
    /\ target_channel = Channel(1)

\* the language code l of the catalog is a prefix of the lowercased hint x
HintMatches(x, l) ==
    x # None /\ l \in DOMAIN _LANG_CACHE /\ StartsWith(Lower(to_locale_code(x)), l)

ForcedApplies == FORCED_LANG # << >> /\ FORCED_LANG \in DOMAIN _LANG_CACHE

\* C6: with no forced language, the result is the language of the first of the
\* request hint and the guild hint that matches an available language; when the
\* request hint is present, matches no available language, and the guild hint
\* matches one, the guild hint's language is returned and not the fallback.
\* Stated for the two languages pick_lang compares hints with, "de" and "en".
C6_FirstMatchingHintWins ==
    (picked.called /\ ~ForcedApplies) =>
        \A l \in { De, En } :
            /\ HintMatches(picked.locale, l) => picked.result = l
            /\ ((\A m \in DOMAIN _LANG_CACHE : ~HintMatches(picked.locale, m))
                  /\ HintMatches(picked.guild_locale, l)) => picked.result = l

\* C7: for every forced language, pair of hints and catalog, the language code
\* pick_lang returns is one of the languages of the catalog.
C7_ResultIsAvailable ==
    picked.called => picked.result \in DOMAIN _LANG_CACHE

\* a call t("en", key) with no placeholders, for a key of the "de" catalog
EnglishCallOfGermanKey ==
    /\ translated.called
    /\ translated.lang = En /\ translated.kwargs = << >>
    /\ De \in DOMAIN _LANG_CACHE /\ translated.key \in DOMAIN _LANG_CACHE[De]

\* C10 as stated: for every key of the "de" catalog, t("en", key) with no
\* placeholders never returns the key itself.
C10_NeverTheBareKey ==
    EnglishCallOfGermanKey => translated.result # translated.key

\* what t makes of a template when no placeholder is supplied
Rendered(text) == IF format_map(text, << >>) = Raised THEN text ELSE format_map(text, << >>)

\* C10 amended: for every key whose "de" entry is a non-empty string, t("en", key)
\* with no placeholders takes its text from a catalog entry, the "en" entry when
\* that is non-empty and the "de" entry otherwise, and returns it formatted; and
\* for every requested language the key itself is the text only when the key is
\* missing or empty in the requested language, in "en" and in "de".
C10_KeyOnlyWhenNoNonEmptyEntry ==
    /\ (EnglishCallOfGermanKey /\ _LANG_CACHE[De][translated.key] # << >>) =>
          /\ translated.tier # "key"
          /\ translated.result =
                Rendered(IF Truthy(CatalogGet(En, translated.key))
                         THEN _LANG_CACHE[En][translated.key]
                         ELSE _LANG_CACHE[De][translated.key])
    /\ (translated.called /\ translated.tier = "key") =>
          \A l \in { translated.lang, En, De } :
              CatalogGet(l, translated.key) \in { None, << >> }

\* C10 witness: the "en" entry is missing or empty and the non-empty "de" entry is used
C10_Witness ==
    /\ EnglishCallOfGermanKey
    /\ _LANG_CACHE[De][translated.key] # << >>
    /\ ~Truthy(CatalogGet(En, translated.key))
    /\ translated.tier = "de"
    /\ translated.result = Rendered(_LANG_CACHE[De][translated.key])

\* C8: an invocation outside a server ends with the private err.guild_only reply:
\* the permission check does not raise on it, and it resolves no target, populates
\* no cache and sends nothing to a channel.
C8_OutsideServerGetsContextError ==
    (pc # "idle" /\ ~interaction.in_guild) =>
        /\ raisedAt # "check"
        /\ pc = "done" => outcome = "guild_only"
        /\ target_channel = None /\ member_cache = "untouched" /\ Posts = { }

\* the branch an invocation ends in, from what it was given and what its
\* collaborators answered, the timezone left aside
ExpectedOutcome ==
    IF ~interaction.in_guild THEN "exception"
    ELSE IF ~interaction.manage_guild THEN "denied"
    ELSE IF resolve_target(interaction.channel_arg, interaction.channel) = None THEN "no_target"
    ELSE IF raisedAt = "build" THEN "exception"
    ELSE IF MissingCapability
            /\ (\E i \in DOMAIN log : log[i].key = << "err.missing_perms" >> /\ log[i].delivered)
         THEN "missing_perms"
    ELSE CASE send_result = "ok" -> "posted"
           [] send_result = "Forbidden" -> "send_forbidden"
           [] send_result = "HTTPException" -> "unexpected_send"

\* the steps whose only possible exception is the transport of a private message
ReplySteps == { "warn", "deny", "defer", "guild", "resolve", "report" }

====
